---- MODULE Spec2Model ----
(***************************************************************************)
(* Model of SpectrumCalculationModule (src/src/SpectrumCalculationModule.ts)*)
(* and of the types it uses (src/unnamed/part_001, the module "./types").  *)
(*                                                                         *)
(* Numbers.  Frequencies and sample rates are integers (Hz).  A frequency  *)
(* resolution sampleRate / paddedLength is kept as the exact fraction      *)
(* [num, den].  A magnitude is an integer count of 1e-10, the quantum that *)
(* limitPrecision (toFixed(10)) rounds every magnitude to.                 *)
(*                                                                         *)
(* A waveform's samples are kept as [length, nonzero]: the number of       *)
(* samples and the set of (0-based) indices whose sample is not 0.         *)
(***************************************************************************)
EXTENDS Integers, Sequences, FiniteSets, TLC

VARIABLES
    numberOfLines,       \* private numberOfLines
    windowType,          \* private windowType
    minFrequency,        \* private minFrequency
    maxFrequency,        \* private maxFrequency
    highPassFrequency,   \* private highPassFrequency
    lowPassFrequency,    \* private lowPassFrequency
    bandRange,           \* private bandRange
    spectrumDatabase,    \* private spectrumDatabase: timestamp -> SpectrumResult
    waveform,            \* the caller's TimeWaveform: the argument of its last
                         \* calculateSpectrum call (NoWaveform: none)
    result,              \* the caller's SpectrumResult: the value last returned by
                         \* calculateSpectrum or integrateSpectrum (NoResult: none)
    thrown,              \* message of the Error the last call threw, "" if it returned
    highPassAtCalc,      \* history: highPassFrequency when result was calculated
    integrations,        \* history: successful integrations applied to result
    calcTime,            \* history: Date.now() - startTime as the last
                         \* calculateSpectrum call read it at its final check
                         \* (NoTime: the call did not get there)
    input,               \* the SpectrumResult passed to the last integrateSpectrum
                         \* call, as it is after the call (NoResult: none)
    bandPeaksShared,     \* whether result.bandPeaks is the Map object of
                         \* input.bandPeaks
    call,                \* the arguments of a call of calculateRealPeakInBand,
                         \* or the band of a call of calculatePeakInBand
                         \* (NoCall: none)
    returned,            \* the number that call, or a call of
                         \* calculateMachineSpeed, returned (NotReturned: not yet)
    trend,               \* the last call of getPeakInBandTrend: its arguments
                         \* and the TrendData it returned (NoTrend: none)
    stores               \* history: the calls of storeSpectrumResult so far,
                         \* each as [timestamp, result]

config == <<numberOfLines, windowType, minFrequency, maxFrequency,
            highPassFrequency, lowPassFrequency, bandRange>>

vars == <<numberOfLines, windowType, minFrequency, maxFrequency,
          highPassFrequency, lowPassFrequency, bandRange, spectrumDatabase,
          waveform, result, thrown, highPassAtCalc, integrations, calcTime,
          input, bandPeaksShared, call, returned, trend, stores>>

(***************************************************************************)
(* types: the exported limits                                              *)
(***************************************************************************)
MAX_LINES == 102400

MIN_LINES == 100

MAX_SAMPLE_RATE == 131072

MAX_WAVEFORM_LENGTH == 300

MAX_SPECTRUM_CALC_TIME == 100

WindowType == {"Hanning", "Rectangular"}

Quantity == {"Acceleration", "Velocity", "Displacement"}

(***************************************************************************)
(* Bounds of the model                                                     *)
(***************************************************************************)
\* Waveforms that pass the length gate have 0..MaxSamples samples.
MaxSamples == 3

\* A nonzero sample has an index below MaxNonzero.
MaxNonzero == 2

(***************************************************************************)
(* Inputs                                                                  *)
(***************************************************************************)
LinesArgs == {MIN_LINES - 1, MIN_LINES, MAX_LINES, MAX_LINES + 1}

MinFrequencyArgs == {-1, 0, 25}

\* 2.56 * 25 = 64 is a sample rate; 2.56 * 51201 exceeds every sample rate
\* the module accepts.
MaxFrequencyArgs == {-1, 0, 25, 51201}

HighPassArgs == {-1, 0, 10, 20}

LowPassArgs == {-1, 0, 20}

BandRangeArgs == {-1, 0, 50, 51202}

SampleRates == {64, MAX_SAMPLE_RATE, MAX_SAMPLE_RATE + 1}

SampleCounts == (0..MaxSamples) \cup {MAX_SAMPLE_RATE * MAX_WAVEFORM_LENGTH + 1}

\* The sample arrays of n samples: all 0, or one nonzero sample at an index
\* 1..MaxNonzero-1.
SampleData(n) ==
    { [length |-> n, nonzero |-> nz] :
        nz \in {{}} \cup {{i} : i \in {j \in 1..(MaxNonzero - 1) : j < n}} }

Waveforms ==
    UNION { { [data |-> d, sampleRate |-> sr, quantity |-> q] :
                d \in SampleData(n), sr \in SampleRates, q \in Quantity } :
            n \in SampleCounts }

\* No TimeWaveform: what the caller holds before it calculates.
NoWaveform ==
    [data |-> [length |-> 0, nonzero |-> {}], sampleRate |-> 0, quantity |-> "None"]

\* The magnitude of a spectral line, in units of 1e-10.
LineMagnitude == 200000

\* Bin magnitudes the transform may report.
Magnitudes == {0, LineMagnitude}

\* The bins (counted from 1) that may hold a spectral line: the first two bins
\* and, in a long spectrum, bin 150 of the code.
LineBins == {1, 2, 151}

ElapsedTimes == {MAX_SPECTRUM_CALC_TIME, MAX_SPECTRUM_CALC_TIME + 1}

\* No reading of the clock at the final check.
NoTime == -1

(***************************************************************************)
(* SpectrumResult                                                          *)
(***************************************************************************)
\* resolution 0
ZeroResolution == [num |-> 0, den |-> 1]

\* No SpectrumResult: what the caller holds before the first result.
NoResult ==
    [maxFrequency |-> 0, resolution |-> ZeroResolution, quantity |-> "None",
     bandPeaks |-> <<>>, isValid |-> FALSE, errorMessage |-> "",
     rawSpectrum |-> <<>>]

\* No call of calculateRealPeakInBand.
NoCall ==
    [spectrum |-> <<>>, startFreq |-> 0, endFreq |-> 0,
     resolution |-> ZeroResolution]

\* A number no method returns: magnitudes are >= 0, speeds are multiples of
\* 30 and the sentinel is -1.
NotReturned == -2

\* No call of getPeakInBandTrend.  A string is the sequence of its
\* characters, a digit being its own code; no call passes the empty string.
NoTrend == [startDate |-> <<>>, endDate |-> <<>>, entries |-> <<>>]

\* A rejecting return without an errorMessage.
InvalidResult_NoMessage(given, resolution, message) ==
    [maxFrequency |-> maxFrequency, resolution |-> resolution,
     quantity |-> given.quantity, bandPeaks |-> <<>>, isValid |-> FALSE,
     errorMessage |-> "", rawSpectrum |-> <<>>]

\* The object literal of every rejecting return of calculateSpectrum:
\* bandPeaks is a new empty Map, errorMessage "" stands for an absent
\* errorMessage and rawSpectrum <<>> for an absent rawSpectrum.
InvalidResult(given, resolution, message) ==
    [maxFrequency |-> maxFrequency, resolution |-> resolution,
     quantity |-> given.quantity, bandPeaks |-> <<>>, isValid |-> FALSE,
     errorMessage |-> message, rawSpectrum |-> <<>>]

(***************************************************************************)
(* Helpers of the class                                                    *)
(***************************************************************************)
\* areParametersValid without its last conjunct.
areParametersValid_NoBandLimit ==
    /\ numberOfLines >= MIN_LINES
    /\ numberOfLines <= MAX_LINES
    /\ minFrequency >= 0
    /\ maxFrequency > minFrequency
    /\ bandRange > 0

areParametersValid ==
    /\ numberOfLines >= MIN_LINES
    /\ numberOfLines <= MAX_LINES
    /\ minFrequency >= 0
    /\ maxFrequency > minFrequency
    /\ bandRange > 0
    /\ bandRange <= maxFrequency

isFilterValid ==
    IF highPassFrequency = 0 THEN TRUE
    ELSE IF lowPassFrequency = 0 THEN TRUE
    ELSE highPassFrequency < lowPassFrequency

\* isIntegrationAllowed on the high pass the result was calculated under.
isIntegrationAllowed_AtCalculation == highPassAtCalc > 0

isIntegrationAllowed == highPassFrequency > 0

\* value.toFixed(10) of the nonnegative quotient num / den of two counts of
\* 1e-10: the nearest count.
limitPrecision(num, den) == (2 * num + den) \div (2 * den)

\* a & b on nonnegative integers
RECURSIVE BitAnd(_, _)
BitAnd(a, b) ==
    IF a = 0 \/ b = 0 THEN 0
    ELSE 2 * BitAnd(a \div 2, b \div 2) + (IF a % 2 = 1 /\ b % 2 = 1 THEN 1 ELSE 0)

RECURSIVE DoublingFrom(_, _)
DoublingFrom(power, n) == IF power < n THEN DoublingFrom(power * 2, n) ELSE power

\* 0 & -1 is 0, so 0 is returned as it is.
getNextPowerOfTwo(n) ==
    IF n = 0 \/ BitAnd(n, n - 1) = 0 THEN n ELSE DoublingFrom(1, n)

\* The window weight of sample i of n is 0 exactly at i = 0 and i = n - 1
\* (cos 0 = cos 2pi = 1); for n = 1 it is 0/0 = NaN, and NaN is not 0.
applyWindow(data) ==
    IF windowType = "Hanning" /\ data.length > 1
    THEN [length |-> data.length,
          nonzero |-> data.nonzero \ {0, data.length - 1}]
    ELSE [length |-> data.length,
          nonzero |-> IF windowType = "Hanning" /\ data.length = 1
                      THEN {0} ELSE data.nonzero]

\* new FFT(size) of fft.js: the constructor throws unless size is a power of
\* two larger than 1.
FFTSizeAccepted(size) == size > 1 /\ BitAnd(size, size - 1) = 0

\* The magnitude spectra taken for what realTransform and the magnitude loop
\* yield for the padded samples: paddedLength / 2 bins, all 0 when every
\* sample is 0, and otherwise a line or none in each of the LineBins.
MagnitudeSpectra(windowed, paddedLength) ==
    IF windowed.nonzero = {}
    THEN { [i \in 1..(paddedLength \div 2) |-> 0] }
    ELSE { [i \in 1..(paddedLength \div 2) |->
               IF i \in lines THEN LineMagnitude ELSE 0] :
             lines \in SUBSET (LineBins \cap (1..(paddedLength \div 2))) }

\* Math.floor(freq / resolution)
FloorIndex(freq, resolution) == (freq * resolution.den) \div resolution.num

\* Math.ceil(freq / resolution)
CeilIndex(freq, resolution) ==
    (freq * resolution.den + resolution.num - 1) \div resolution.num

Min(a, b) == IF a < b THEN a ELSE b

\* The loop over the bins of a band; spectrum[i] of the code is
\* spectrum[i + 1] here.
RECURSIVE PeakLoop(_, _, _, _)
PeakLoop(spectrum, i, endIndex, maxValue) ==
    IF i < endIndex /\ i < Len(spectrum)
    THEN PeakLoop(spectrum, i + 1, endIndex,
                  IF spectrum[i + 1] > maxValue THEN spectrum[i + 1] ELSE maxValue)
    ELSE maxValue

\* calculateRealPeakInBand with Math.floor for the end index.
calculateRealPeakInBand_FloorEnd(spectrum, startFreq, endFreq, resolution) ==
    PeakLoop(spectrum, FloorIndex(startFreq, resolution),
             FloorIndex(endFreq, resolution), 0)

\* The final limitPrecision leaves a magnitude, a count of 1e-10, as it is.
calculateRealPeakInBand(spectrum, startFreq, endFreq, resolution) ==
    PeakLoop(spectrum, FloorIndex(startFreq, resolution),
             CeilIndex(endFreq, resolution), 0)

applyFrequencyDomainFiltering(spectrum, resolution) ==
    LET minFreqIndex == FloorIndex(minFrequency, resolution)
        highPassIndex == FloorIndex(highPassFrequency, resolution)
        cutoffFreq == IF lowPassFrequency > 0
                      THEN Min(maxFrequency, lowPassFrequency)
                      ELSE maxFrequency
        cutoffIndex == CeilIndex(cutoffFreq, resolution)
    IN  [k \in 1..Len(spectrum) |->
            IF \/ k - 1 < minFreqIndex
               \/ highPassFrequency > 0 /\ k - 1 < highPassIndex
               \/ k - 1 >= cutoffIndex
            THEN 0 ELSE spectrum[k]]

\* BandPeaksFrom without the Math.min that ends the last band at maxFrequency.
BandPeaksFrom_Unclipped(startFreq, spectrum, resolution) ==
    LET passes == IF startFreq < maxFrequency
                  THEN (maxFrequency - startFreq + bandRange - 1) \div bandRange
                  ELSE 0
    IN  [k \in 1..passes |->
            LET start == startFreq + (k - 1) * bandRange
                endFreq == start + bandRange
            IN  [start |-> start, end |-> endFreq,
                 value |-> calculateRealPeakInBand(spectrum, start, endFreq,
                                                   resolution)]]

\* The loop that creates the bands, from startFreq on in steps of bandRange
\* while startFreq < maxFrequency: its k-th pass sets the k-th entry of the
\* Map, which keeps insertion order.
BandPeaksFrom(startFreq, spectrum, resolution) ==
    LET passes == IF startFreq < maxFrequency
                  THEN (maxFrequency - startFreq + bandRange - 1) \div bandRange
                  ELSE 0
    IN  [k \in 1..passes |->
            LET start == startFreq + (k - 1) * bandRange
                endFreq == Min(start + bandRange, maxFrequency)
            IN  [start |-> start, end |-> endFreq,
                 value |-> calculateRealPeakInBand(spectrum, start, endFreq,
                                                   resolution)]]

(***************************************************************************)
(* Setters                                                                 *)
(***************************************************************************)
\* The setters say nothing of the caller's result: what becomes of it is the
\* caller's part of a step (Forget, Keep).

\* A call that returns normally.
Returned == thrown' = ""

\* A call that throws Error(message): no field is assigned.
Throws(message) ==
    /\ thrown' = message
    /\ UNCHANGED <<numberOfLines, windowType, minFrequency, maxFrequency,
                   highPassFrequency, lowPassFrequency, bandRange,
                   spectrumDatabase>>

\* setNumberOfLines with lines <= MIN_LINES for its first test.
setNumberOfLines_MinExclusive(lines) ==
    IF lines <= MIN_LINES
    THEN Throws("Number of lines cannot be less than 100")
    ELSE IF lines > MAX_LINES
    THEN Throws("Number of lines cannot exceed 102400")
    ELSE /\ numberOfLines' = lines
         /\ Returned
         /\ UNCHANGED <<windowType, minFrequency, maxFrequency, highPassFrequency,
                        lowPassFrequency, bandRange, spectrumDatabase>>

setNumberOfLines(lines) ==
    IF lines < MIN_LINES
    THEN Throws("Number of lines cannot be less than 100")
    ELSE IF lines > MAX_LINES
    THEN Throws("Number of lines cannot exceed 102400")
    ELSE /\ numberOfLines' = lines
         /\ Returned
         /\ UNCHANGED <<windowType, minFrequency, maxFrequency, highPassFrequency,
                        lowPassFrequency, bandRange, spectrumDatabase>>

setWindowType(type) ==
    /\ windowType' = type
    /\ Returned
    /\ UNCHANGED <<numberOfLines, minFrequency, maxFrequency, highPassFrequency,
                   lowPassFrequency, bandRange, spectrumDatabase>>

\* setMinFrequency without its test.
setMinFrequency_NoCheck(frequency) ==
    /\ minFrequency' = frequency
    /\ Returned
    /\ UNCHANGED <<numberOfLines, windowType, maxFrequency, highPassFrequency,
                   lowPassFrequency, bandRange, spectrumDatabase>>

setMinFrequency(frequency) ==
    IF frequency < 0
    THEN Throws("Frequency cannot be negative")
    ELSE /\ minFrequency' = frequency
         /\ Returned
         /\ UNCHANGED <<numberOfLines, windowType, maxFrequency, highPassFrequency,
                        lowPassFrequency, bandRange, spectrumDatabase>>

setMaxFrequency(frequency) ==
    IF frequency < 0
    THEN Throws("Frequency cannot be negative")
    ELSE /\ maxFrequency' = frequency
         /\ Returned
         /\ UNCHANGED <<numberOfLines, windowType, minFrequency, highPassFrequency,
                        lowPassFrequency, bandRange, spectrumDatabase>>

setHighPassFrequency(frequency) ==
    IF frequency < 0
    THEN Throws("Frequency cannot be negative")
    ELSE /\ highPassFrequency' = frequency
         /\ Returned
         /\ UNCHANGED <<numberOfLines, windowType, minFrequency, maxFrequency,
                        lowPassFrequency, bandRange, spectrumDatabase>>

\* setLowPassFrequency assigning the field of setHighPassFrequency.
setLowPassFrequency_WritesHighPass(frequency) ==
    IF frequency < 0
    THEN Throws("Frequency cannot be negative")
    ELSE /\ highPassFrequency' = frequency
         /\ Returned
         /\ UNCHANGED <<numberOfLines, windowType, minFrequency, maxFrequency,
                        lowPassFrequency, bandRange, spectrumDatabase>>

setLowPassFrequency(frequency) ==
    IF frequency < 0
    THEN Throws("Frequency cannot be negative")
    ELSE /\ lowPassFrequency' = frequency
         /\ Returned
         /\ UNCHANGED <<numberOfLines, windowType, minFrequency, maxFrequency,
                        highPassFrequency, bandRange, spectrumDatabase>>

\* setBandRange without its second test.
setBandRange_NoMaxCheck(range) ==
    IF range <= 0
    THEN Throws("Band range must be positive")
    ELSE /\ bandRange' = range
         /\ Returned
         /\ UNCHANGED <<numberOfLines, windowType, minFrequency, maxFrequency,
                        highPassFrequency, lowPassFrequency, spectrumDatabase>>

setBandRange(range) ==
    IF range <= 0
    THEN Throws("Band range must be positive")
    ELSE IF range > maxFrequency
    THEN Throws("Band range cannot be larger than max frequency")
    ELSE /\ bandRange' = range
         /\ Returned
         /\ UNCHANGED <<numberOfLines, windowType, minFrequency, maxFrequency,
                        highPassFrequency, lowPassFrequency, spectrumDatabase>>

(***************************************************************************)
(* calculateSpectrum                                                       *)
(***************************************************************************)
\* GateMessage with the two sample rate checks in the other order.
GateMessage_RateChecksSwapped(given) ==
    IF ~areParametersValid
    THEN "Invalid spectrum parameters"
    ELSE IF ~isFilterValid
    THEN "High pass frequency must be smaller than low pass frequency"
    ELSE IF given.sampleRate > MAX_SAMPLE_RATE
    THEN "Sample rate cannot exceed 131072 Hz"
    ELSE IF given.sampleRate * 100 < maxFrequency * 256
    THEN "Sample rate must be at least 2.56 times higher than maximum frequency"
    ELSE IF given.data.length > MAX_SAMPLE_RATE * MAX_WAVEFORM_LENGTH
    THEN "Time waveform length exceeds maximum allowed (5 minutes at 131072 Hz)"
    ELSE ""

\* GateMessage without the maximum sample rate check.
GateMessage_NoRateLimit(given) ==
    IF ~areParametersValid
    THEN "Invalid spectrum parameters"
    ELSE IF ~isFilterValid
    THEN "High pass frequency must be smaller than low pass frequency"
    ELSE IF given.sampleRate * 100 < maxFrequency * 256
    THEN "Sample rate must be at least 2.56 times higher than maximum frequency"
    ELSE IF given.data.length > MAX_SAMPLE_RATE * MAX_WAVEFORM_LENGTH
    THEN "Time waveform length exceeds maximum allowed (5 minutes at 131072 Hz)"
    ELSE ""

\* The reason of the first gate that rejects the waveform, "" when all pass.
GateMessage(given) ==
    IF ~areParametersValid
    THEN "Invalid spectrum parameters"
    ELSE IF ~isFilterValid
    THEN "High pass frequency must be smaller than low pass frequency"
    ELSE IF given.sampleRate * 100 < maxFrequency * 256
    THEN "Sample rate must be at least 2.56 times higher than maximum frequency"
    ELSE IF given.sampleRate > MAX_SAMPLE_RATE
    THEN "Sample rate cannot exceed 131072 Hz"
    ELSE IF given.data.length > MAX_SAMPLE_RATE * MAX_WAVEFORM_LENGTH
    THEN "Time waveform length exceeds maximum allowed (5 minutes at 131072 Hz)"
    ELSE ""

\* paddedData.length
PaddedLength(given) ==
    LET windowedData == applyWindow(given.data)
        nextPowerOfTwo == getNextPowerOfTwo(windowedData.length)
    IN  IF nextPowerOfTwo > windowedData.length
        THEN nextPowerOfTwo ELSE windowedData.length

\* ComputedResult with the bands taken from the spectrum cut to numberOfLines
\* bins.
ComputedResult_BandsFromLimited(given, spectrum, elapsed) ==
    LET resolution == [num |-> given.sampleRate, den |-> PaddedLength(given)]
    IN  IF elapsed > MAX_SPECTRUM_CALC_TIME
        THEN InvalidResult(given, resolution,
                 "Spectrum calculation time exceeded maximum allowed (100 ms)")
        ELSE [maxFrequency |-> maxFrequency, resolution |-> resolution,
              quantity |-> given.quantity,
              bandPeaks |-> BandPeaksFrom(minFrequency,
                                SubSeq(spectrum, 1, Min(Len(spectrum), numberOfLines)),
                                resolution),
              isValid |-> TRUE, errorMessage |-> "", rawSpectrum |-> spectrum]

\* What a call returns once the transform has yielded `spectrum` and the
\* clock shows `elapsed` ms at the final check.  filteredSpectrum and
\* limitedSpectrum are computed and never read: the bands and rawSpectrum are
\* taken from the unfiltered spectrum.
ComputedResult(given, spectrum, elapsed) ==
    LET resolution == [num |-> given.sampleRate, den |-> PaddedLength(given)]
    IN  IF elapsed > MAX_SPECTRUM_CALC_TIME
        THEN InvalidResult(given, resolution,
                 "Spectrum calculation time exceeded maximum allowed (100 ms)")
        ELSE [maxFrequency |-> maxFrequency, resolution |-> resolution,
              quantity |-> given.quantity,
              bandPeaks |-> BandPeaksFrom(minFrequency, spectrum, resolution),
              isValid |-> TRUE, errorMessage |-> "", rawSpectrum |-> spectrum]

\* The caller's result becomes the returned one, which has been passed to no
\* integrateSpectrum call yet; a call that throws leaves the caller without a
\* result.
Returns(value) ==
    /\ result' = value
    /\ thrown' = ""
    /\ highPassAtCalc' = highPassFrequency
    /\ integrations' = 0
    /\ input' = NoResult
    /\ bandPeaksShared' = FALSE

calculateSpectrum(given) ==
    /\ UNCHANGED <<numberOfLines, windowType, minFrequency, maxFrequency,
                   highPassFrequency, lowPassFrequency, bandRange,
                   spectrumDatabase>>
    /\ UNCHANGED <<call, returned, trend, stores>>
    /\ IF GateMessage(given) # ""
       THEN /\ Returns(InvalidResult(given, ZeroResolution, GateMessage(given)))
            /\ calcTime' = NoTime
       ELSE IF ~FFTSizeAccepted(PaddedLength(given))
       THEN /\ thrown' = "FFT size must be a power of two larger than 1"
            /\ result' = NoResult
            /\ highPassAtCalc' = 0
            /\ integrations' = 0
            /\ input' = NoResult
            /\ bandPeaksShared' = FALSE
            /\ calcTime' = NoTime
       ELSE \E spectrum \in MagnitudeSpectra(applyWindow(given.data),
                                             PaddedLength(given)),
               elapsed \in ElapsedTimes :
                /\ Returns(ComputedResult(given, spectrum, elapsed))
                /\ calcTime' = elapsed

\* The window applied to the caller's own array.
calculateSpectrumWaveformAfter_WindowInPlace(given) ==
    [given EXCEPT !.data = applyWindow(given.data)]

\* The object passed as waveform, after the call: applyWindow multiplies the
\* elements of a copy ([...data]), the padding fills a new array, and no
\* statement of calculateSpectrum assigns to waveform or to its data.
calculateSpectrumWaveformAfter(given) == given

(***************************************************************************)
(* integrateSpectrum                                                       *)
(***************************************************************************)
\* 2 * Math.PI * centerFreq for centerFreq = (start + end) / 2 is
\* Math.PI * (start + end); Math.PI is taken as PiNum / PiDen.
PiNum == 355

PiDen == 113

\* IntegratedBands with the bands of center <= 0 kept, with value 0.
IntegratedBands_ZeroedNotDropped(bandPeaks) ==
    [k \in 1..Len(bandPeaks) |->
        [start |-> bandPeaks[k].start, end |-> bandPeaks[k].end,
         value |-> IF bandPeaks[k].start + bandPeaks[k].end <= 0 THEN 0
                   ELSE limitPrecision(bandPeaks[k].value * PiDen,
                            PiNum * (bandPeaks[k].start + bandPeaks[k].end))]]

RECURSIVE IntegratedBands(_)
IntegratedBands(bandPeaks) ==
    IF bandPeaks = <<>> THEN <<>>
    ELSE LET band == Head(bandPeaks)
         IN  (IF band.start + band.end <= 0 THEN <<>>
              ELSE << [start |-> band.start, end |-> band.end,
                       value |-> limitPrecision(band.value * PiDen,
                                                PiNum * (band.start + band.end))] >>)
             \o IntegratedBands(Tail(bandPeaks))

\* integrateSpectrumReturn without the check for Displacement.
integrateSpectrumReturn_NoTerminalCheck(spectrum) ==
    IF ~isIntegrationAllowed
    THEN [spectrum EXCEPT !.isValid = FALSE,
            !.errorMessage = "Integration is not allowed when high pass filter is not used"]
    ELSE [spectrum EXCEPT
            !.quantity = IF spectrum.quantity = "Acceleration" THEN "Velocity"
                         ELSE IF spectrum.quantity = "Velocity" THEN "Displacement"
                         ELSE spectrum.quantity,
            !.bandPeaks = IntegratedBands(spectrum.bandPeaks),
            !.isValid = TRUE]

\* integrateSpectrumReturn without the check of isIntegrationAllowed.
integrateSpectrumReturn_NoEligibilityCheck(spectrum) ==
    IF spectrum.quantity = "Displacement"
    THEN [spectrum EXCEPT !.isValid = FALSE,
            !.errorMessage = "Cannot integrate displacement to prevent double integration"]
    ELSE [spectrum EXCEPT
            !.quantity = IF spectrum.quantity = "Acceleration" THEN "Velocity"
                         ELSE IF spectrum.quantity = "Velocity" THEN "Displacement"
                         ELSE spectrum.quantity,
            !.bandPeaks = IntegratedBands(spectrum.bandPeaks),
            !.isValid = TRUE]

\* integrateSpectrumReturn with its two checks in the other order.
integrateSpectrumReturn_TerminalFirst(spectrum) ==
    IF spectrum.quantity = "Displacement"
    THEN [spectrum EXCEPT !.isValid = FALSE,
            !.errorMessage = "Cannot integrate displacement to prevent double integration"]
    ELSE IF ~isIntegrationAllowed
    THEN [spectrum EXCEPT !.isValid = FALSE,
            !.errorMessage = "Integration is not allowed when high pass filter is not used"]
    ELSE [spectrum EXCEPT
            !.quantity = IF spectrum.quantity = "Acceleration" THEN "Velocity"
                         ELSE IF spectrum.quantity = "Velocity" THEN "Displacement"
                         ELSE spectrum.quantity,
            !.bandPeaks = IntegratedBands(spectrum.bandPeaks),
            !.isValid = TRUE]

integrateSpectrumReturn(spectrum) ==
    IF ~isIntegrationAllowed
    THEN [spectrum EXCEPT !.isValid = FALSE,
            !.errorMessage = "Integration is not allowed when high pass filter is not used"]
    ELSE IF spectrum.quantity = "Displacement"
    THEN [spectrum EXCEPT !.isValid = FALSE,
            !.errorMessage = "Cannot integrate displacement to prevent double integration"]
    ELSE [spectrum EXCEPT
            !.quantity = IF spectrum.quantity = "Acceleration" THEN "Velocity"
                         ELSE IF spectrum.quantity = "Velocity" THEN "Displacement"
                         ELSE spectrum.quantity,
            !.bandPeaks = IntegratedBands(spectrum.bandPeaks),
            !.isValid = TRUE]

\* integrateSpectrumInputAfter with the integrated values set on the Map of
\* the input.
integrateSpectrumInputAfter_BandsOverwritten(spectrum) ==
    [spectrum EXCEPT !.bandPeaks = IntegratedBands(spectrum.bandPeaks)]

\* The object passed as spectrum, after the call: no statement of
\* integrateSpectrum assigns to a property of spectrum, and set is called on
\* the bandPeaks of the new result only.
integrateSpectrumInputAfter(spectrum) == spectrum

\* Whether the returned bandPeaks is the Map object of spectrum.bandPeaks: the
\* spread of the two rejecting returns copies the reference, the accepting
\* path assigns a new Map.
integrateSpectrumSharesBandPeaks(spectrum) ==
    IF ~isIntegrationAllowed THEN TRUE
    ELSE IF spectrum.quantity = "Displacement" THEN TRUE
    ELSE FALSE

\* The caller integrates the result it holds and keeps the returned one.
integrateSpectrum ==
    /\ result # NoResult
    /\ result' = integrateSpectrumReturn(result)
    /\ input' = integrateSpectrumInputAfter(result)
    /\ bandPeaksShared' = integrateSpectrumSharesBandPeaks(result)
    /\ thrown' = ""
    /\ integrations' = IF result'.isValid THEN integrations + 1 ELSE integrations
    /\ UNCHANGED <<numberOfLines, windowType, minFrequency, maxFrequency,
                   highPassFrequency, lowPassFrequency, bandRange,
                   spectrumDatabase, waveform, highPassAtCalc, calcTime,
                   call, returned, trend, stores>>

(***************************************************************************)
(* The module after construction, and its use                              *)
(***************************************************************************)
Init ==
    /\ numberOfLines = 1024
    /\ windowType = "Hanning"
    /\ minFrequency = 0
    /\ maxFrequency = 1000
    /\ highPassFrequency = 0
    /\ lowPassFrequency = 0
    /\ bandRange = 25
    /\ spectrumDatabase = <<>>
    /\ waveform = NoWaveform
    /\ result = NoResult
    /\ thrown = ""
    /\ highPassAtCalc = 0
    /\ integrations = 0
    /\ calcTime = NoTime
    /\ input = NoResult
    /\ bandPeaksShared = FALSE
    /\ call = NoCall
    /\ returned = NotReturned
    /\ trend = NoTrend
    /\ stores = <<>>

\* The caller drops the waveform and the result it holds.
Forget ==
    /\ waveform' = NoWaveform
    /\ result' = NoResult
    /\ highPassAtCalc' = 0
    /\ integrations' = 0
    /\ calcTime' = NoTime
    /\ input' = NoResult
    /\ bandPeaksShared' = FALSE
    /\ UNCHANGED <<call, returned, trend, stores>>

\* The caller keeps the waveform and the result it holds.
Keep ==
    UNCHANGED <<waveform, result, highPassAtCalc, integrations, calcTime, input,
                bandPeaksShared, call, returned, trend, stores>>

\* Callers in the manner of the /api/process handler: they configure the
\* module, then calculate the spectrum of a waveform, and start over with a
\* new configuration.  calculateSpectrum reads nothing of the caller's state,
\* so a second call under the same configuration reaches what the first does.
Next ==
    \/ (\E lines \in LinesArgs : setNumberOfLines(lines)) /\ Forget
    \/ (\E type \in WindowType : setWindowType(type)) /\ Forget
    \/ (\E frequency \in MinFrequencyArgs : setMinFrequency(frequency)) /\ Forget
    \/ (\E frequency \in MaxFrequencyArgs : setMaxFrequency(frequency)) /\ Forget
    \/ (\E frequency \in HighPassArgs : setHighPassFrequency(frequency)) /\ Forget
    \/ (\E frequency \in LowPassArgs : setLowPassFrequency(frequency)) /\ Forget
    \/ (\E range \in BandRangeArgs : setBandRange(range)) /\ Forget
    \/ \E given \in Waveforms :
          /\ waveform = NoWaveform
          /\ calculateSpectrum(given)
          /\ waveform' = calculateSpectrumWaveformAfter(given)

Spec == Init /\ [][Next]_vars

\* Callers that calculate under the default frequency range, integrate the
\* result they hold and reconfigure the filters while they hold it.  They
\* calculate when they hold no result: calculateSpectrum reads nothing of the
\* caller's state, so a call made while holding a result reaches what the
\* call made under the same configuration without one does.
NextIntegrate ==
    \/ (\E frequency \in HighPassArgs : setHighPassFrequency(frequency)) /\ Keep
    \/ (\E frequency \in LowPassArgs : setLowPassFrequency(frequency)) /\ Keep
    \/ /\ result = NoResult
       /\ \E given \in Waveforms : calculateSpectrum(given)
       /\ UNCHANGED waveform
    \/ integrateSpectrum

SpecIntegrate == Init /\ [][NextIntegrate]_vars

\* The samples of a long waveform.
LongSamples == 512

\* Acceleration waveforms of LongSamples samples at 2560 Hz, 2.56 times the
\* default maxFrequency: padded to 512 samples they give 256 bins of 5 Hz, of
\* which the default bands, of 5 bins each, cover the first 200.
LongWaveforms ==
    { [data |-> d, sampleRate |-> 2560, quantity |-> "Acceleration"] :
        d \in SampleData(LongSamples) }

\* 100 Hz is the end of the fourth band and bin 20.
LongHighPassArgs == {0, 100}

\* 500 Hz is the end of the twentieth band and bin 100.
LongLowPassArgs == {0, 500}

\* Callers that calculate the spectrum of a long waveform under the default
\* frequency range.  They calculate anew after they have set a filter, and
\* they keep waveform and result when they set the number of lines: the result
\* a caller holds was calculated under the filters of the state, and under
\* some numberOfLines.
NextLong ==
    \/ (\E lines \in LinesArgs : setNumberOfLines(lines)) /\ Keep
    \/ (\E frequency \in LongHighPassArgs : setHighPassFrequency(frequency))
          /\ Forget
    \/ (\E frequency \in LongLowPassArgs : setLowPassFrequency(frequency))
          /\ Forget
    \/ \E given \in LongWaveforms :
          /\ calculateSpectrum(given)
          /\ waveform' = calculateSpectrumWaveformAfter(given)

SpecLong == Init /\ [][NextLong]_vars

\* The most bands of a SpectrumResult a caller makes up.
MaxGivenBands == 2

\* Band keys a caller may put into a SpectrumResult: centers -12.5, 0, 12.5
\* and 37.5.
GivenBandKeys == {<<-25, 0>>, <<-25, 25>>, <<0, 25>>, <<25, 50>>}

GivenBands ==
    { [start |-> key[1], end |-> key[2], value |-> value] :
        key \in GivenBandKeys, value \in Magnitudes }

\* SpectrumResult objects that integrateSpectrum, a public method, may be
\* given: of any quantity and validity, with up to MaxGivenBands bands in any
\* order.
GivenResults ==
    UNION { { [maxFrequency |-> 1000, resolution |-> [num |-> 64, den |-> 4],
               quantity |-> q, bandPeaks |-> b, isValid |-> v,
               errorMessage |-> IF v THEN "" ELSE "Invalid spectrum parameters",
               rawSpectrum |-> <<>>] :
                q \in Quantity, b \in [1..n -> GivenBands], v \in BOOLEAN } :
            n \in 0..MaxGivenBands }

\* A new module and a caller that holds a SpectrumResult of its own making.
InitGiven ==
    /\ numberOfLines = 1024
    /\ windowType = "Hanning"
    /\ minFrequency = 0
    /\ maxFrequency = 1000
    /\ highPassFrequency = 0
    /\ lowPassFrequency = 0
    /\ bandRange = 25
    /\ spectrumDatabase = <<>>
    /\ waveform = NoWaveform
    /\ result \in GivenResults
    /\ thrown = ""
    /\ highPassAtCalc = 0
    /\ integrations = 0
    /\ calcTime = NoTime
    /\ input = NoResult
    /\ bandPeaksShared = FALSE
    /\ call = NoCall
    /\ returned = NotReturned
    /\ trend = NoTrend
    /\ stores = <<>>

NextGiven ==
    \/ (\E frequency \in HighPassArgs : setHighPassFrequency(frequency)) /\ Keep
    \/ integrateSpectrum

SpecIntegrateGiven == InitGiven /\ [][NextGiven]_vars

\* The most bins of a spectrum passed to calculateRealPeakInBand.
MaxBins == 2

PeakMagnitudes == {0, 100000, 200000}

\* Calls of calculateRealPeakInBand: resolutions 16 and 32 Hz; bands that are
\* empty (end <= start), that end between two bins, and that start beyond the
\* last bin.
PeakCalls ==
    UNION { { [spectrum |-> sp, startFreq |-> sf, endFreq |-> ef, resolution |-> r] :
                sp \in [1..n -> PeakMagnitudes], sf \in {0, 16, 40},
                ef \in {0, 16, 24, 40, 100},
                r \in {[num |-> 64, den |-> 4], [num |-> 64, den |-> 2]} } :
            n \in 0..MaxBins }

InitPeak ==
    /\ numberOfLines = 1024
    /\ windowType = "Hanning"
    /\ minFrequency = 0
    /\ maxFrequency = 1000
    /\ highPassFrequency = 0
    /\ lowPassFrequency = 0
    /\ bandRange = 25
    /\ spectrumDatabase = <<>>
    /\ waveform = NoWaveform
    /\ result = NoResult
    /\ thrown = ""
    /\ highPassAtCalc = 0
    /\ integrations = 0
    /\ calcTime = NoTime
    /\ input = NoResult
    /\ bandPeaksShared = FALSE
    /\ call \in PeakCalls
    /\ returned = NotReturned
    /\ trend = NoTrend
    /\ stores = <<>>

\* The call is made and returns.
ReturnPeak ==
    /\ call # NoCall
    /\ returned = NotReturned
    /\ returned' = calculateRealPeakInBand(call.spectrum, call.startFreq,
                                           call.endFreq, call.resolution)
    /\ UNCHANGED <<numberOfLines, windowType, minFrequency, maxFrequency,
                   highPassFrequency, lowPassFrequency, bandRange,
                   spectrumDatabase, waveform, result, thrown, highPassAtCalc,
                   integrations, calcTime, input, bandPeaksShared, call,
                   trend, stores>>

NextPeak == ReturnPeak

SpecPeak == InitPeak /\ [][NextPeak]_vars

(***************************************************************************)
(* Claims about calculateSpectrum.  Under Spec a state whose waveform is   *)
(* not NoWaveform is the state right after calculateSpectrum(waveform),    *)
(* and the configuration is the one the call ran under.                    *)
(***************************************************************************)
Calculated == waveform # NoWaveform

\* The joint configuration rules, as the claims list them.
ParametersInRange ==
    /\ numberOfLines \in 100..102400
    /\ minFrequency >= 0
    /\ maxFrequency > minFrequency
    /\ 0 < bandRange
    /\ bandRange <= maxFrequency

FilterOrdered ==
    ~(highPassFrequency # 0 /\ lowPassFrequency # 0
      /\ highPassFrequency >= lowPassFrequency)

JointlyValid == ParametersInRange /\ FilterOrdered

\* C1: calculateSpectrum never throws: for every configuration reachable
\* through the setters and every waveform, of any sample count from 0 upward,
\* it returns a SpectrumResult.
C1_NeverThrows == Calculated => thrown = ""

\* C2: whenever the configuration violates the joint rules the call returns
\* isValid = false with a reason and does not throw, although every setter call
\* that led there was accepted; a result with isValid = true is returned only
\* under a configuration that satisfies all of them.
C2_JointCheck ==
    Calculated =>
        /\ ~JointlyValid =>
              thrown = "" /\ ~result.isValid /\ result.errorMessage # ""
        /\ result.isValid => JointlyValid

\* A rejected calculation under a maxFrequency that an accepted setMaxFrequency
\* lowered below bandRange, the other rules being met.
C2_Witness ==
    /\ Calculated
    /\ maxFrequency < bandRange
    /\ maxFrequency > minFrequency
    /\ thrown = ""
    /\ ~result.isValid
    /\ result.errorMessage = "Invalid spectrum parameters"

RateTooLow == waveform.sampleRate * 100 < maxFrequency * 256

RateTooHigh == waveform.sampleRate > 131072

TooLong == waveform.data.length > 131072 * 300

\* C3: under a jointly valid configuration a waveform with sampleRate <
\* 2.56 * maxFrequency, sampleRate > 131072 or more than 131072 * 300 samples
\* gets isValid = false, and the reason is that of the first failing check in
\* the order joint configuration, filter ordering, insufficient sample rate,
\* excessive sample rate, excessive waveform length.
C3_GateOrder ==
    Calculated =>
        /\ (JointlyValid /\ (RateTooLow \/ RateTooHigh \/ TooLong)) =>
              thrown = "" /\ ~result.isValid
        /\ (~JointlyValid \/ RateTooLow \/ RateTooHigh \/ TooLong) =>
              result.errorMessage =
                 IF ~ParametersInRange
                 THEN "Invalid spectrum parameters"
                 ELSE IF ~FilterOrdered
                 THEN "High pass frequency must be smaller than low pass frequency"
                 ELSE IF RateTooLow
                 THEN "Sample rate must be at least 2.56 times higher than maximum frequency"
                 ELSE IF RateTooHigh
                 THEN "Sample rate cannot exceed 131072 Hz"
                 ELSE "Time waveform length exceeds maximum allowed (5 minutes at 131072 Hz)"

\* A waveform that is too long and too fast, rejected for its sample rate.
C3_Witness ==
    /\ Calculated
    /\ JointlyValid
    /\ RateTooHigh
    /\ TooLong
    /\ ~result.isValid
    /\ result.errorMessage = "Sample rate cannot exceed 131072 Hz"

\* C4: a waveform whose sample rate exceeds 131072 Hz always gets isValid =
\* false with the sample-rate-exceeded reason, whatever the configuration and
\* the rest of the waveform.
C4_RateExceededAlways ==
    (Calculated /\ RateTooHigh) =>
        /\ thrown = ""
        /\ ~result.isValid
        /\ result.errorMessage = "Sample rate cannot exceed 131072 Hz"

\* C4 as amended: such a waveform always gets isValid = false; the reason is
\* the sample-rate-exceeded one when the configuration is jointly valid and
\* sampleRate >= 2.56 * maxFrequency, and the reason of the earlier failing
\* check otherwise.
C4_RateExceeded ==
    (Calculated /\ RateTooHigh) =>
        /\ thrown = ""
        /\ ~result.isValid
        /\ (JointlyValid /\ ~RateTooLow) =>
              result.errorMessage = "Sample rate cannot exceed 131072 Hz"
        /\ (~JointlyValid \/ RateTooLow) =>
              result.errorMessage \in
                 {"Invalid spectrum parameters",
                  "High pass frequency must be smaller than low pass frequency",
                  "Sample rate must be at least 2.56 times higher than maximum frequency"}

\* A sample rate above 131072 Hz rejected under a jointly valid configuration
\* for being less than 2.56 * maxFrequency.
C4_Witness ==
    /\ Calculated
    /\ RateTooHigh
    /\ JointlyValid
    /\ RateTooLow
    /\ ~result.isValid
    /\ result.errorMessage # "Sample rate cannot exceed 131072 Hz"

CutByFilter(i) ==
    \/ /\ highPassFrequency > 0
       /\ (i + 1) * result.resolution.num
             <= highPassFrequency * result.resolution.den
    \/ /\ lowPassFrequency > 0
       /\ i * result.resolution.num
             >= Min(maxFrequency, lowPassFrequency) * result.resolution.den

\* The bins of the result's spectrum that belong to the band.
BinsOfBand(band) ==
    { i \in 0..(Len(result.rawSpectrum) - 1) :
        /\ band.start * result.resolution.den < (i + 1) * result.resolution.num
        /\ i * result.resolution.num < band.end * result.resolution.den }

\* C17: in a valid result the bins that the filters cut count as 0 in every
\* band peak: the peak of a band is the largest magnitude among its bins that
\* are not cut, and 0 when all its bins are cut.
C17_BandsFromFiltered ==
    (Calculated /\ result.isValid) =>
        \A k \in 1..Len(result.bandPeaks) :
            LET band == result.bandPeaks[k]
            IN  /\ \A i \in BinsOfBand(band) :
                      ~CutByFilter(i) => result.rawSpectrum[i + 1] <= band.value
                /\ band.value > 0 =>
                      \E i \in BinsOfBand(band) :
                          ~CutByFilter(i) /\ result.rawSpectrum[i + 1] = band.value

SameTransform ==
    (result.isValid /\ result'.isValid) => result'.rawSpectrum = result.rawSpectrum

TimedOut(spectrumResult) ==
    spectrumResult.errorMessage =
        "Spectrum calculation time exceeded maximum allowed (100 ms)"

\* C18: two calculations of the same waveform under configurations that differ
\* at most in numberOfLines, neither over the time budget and both with the
\* same output of the transform, return the same validity, the same resolution
\* and the same bands.
C18_LinesDoNotMatter ==
    [][(/\ waveform # NoWaveform
        /\ waveform' = waveform
        /\ ~TimedOut(result)
        /\ ~TimedOut(result')
        /\ SameTransform) =>
          /\ result'.isValid = result.isValid
          /\ result'.resolution = result.resolution
          /\ result'.bandPeaks = result.bandPeaks]_vars

\* A valid result under 100 lines with a peak in the band of bin 150.
C18_Witness ==
    /\ Calculated
    /\ numberOfLines = MIN_LINES
    /\ result.isValid
    /\ Len(result.rawSpectrum) > MIN_LINES
    /\ \E k \in 1..Len(result.bandPeaks) :
          /\ result.bandPeaks[k].start * result.resolution.den
                >= MIN_LINES * result.resolution.num
          /\ result.bandPeaks[k].value > 0

(***************************************************************************)
(* Claims about calculateRealPeakInBand, under SpecPeak                    *)
(***************************************************************************)
\* The indices i of the bins of the call with
\* floor(startFreq / resolution) <= i < ceil(endFreq / resolution).
BinsOfCall ==
    { i \in 0..(Len(call.spectrum) - 1) :
        /\ call.startFreq * call.resolution.den < (i + 1) * call.resolution.num
        /\ i * call.resolution.num < call.endFreq * call.resolution.den }

\* C16: the peak of a band is the largest magnitude among the bins i with
\* floor(start / resolution) <= i < ceil(end / resolution) and i < spectrum
\* length, and 0 when there is no such bin.
C16_PeakIsMaximum ==
    returned # NotReturned =>
        IF BinsOfCall = {}
        THEN returned = 0
        ELSE /\ \E i \in BinsOfCall : returned = call.spectrum[i + 1]
             /\ \A i \in BinsOfCall : call.spectrum[i + 1] <= returned

\* The larger of two different magnitudes returned for a band that ends
\* between two bins.
C16_Witness ==
    /\ call.spectrum = <<100000, 200000>>
    /\ call.startFreq = 0
    /\ call.endFreq = 24
    /\ call.resolution = [num |-> 64, den |-> 4]
    /\ returned = 200000

(***************************************************************************)
(* Claims about the setters                                                *)
(***************************************************************************)
\* C5: setNumberOfLines(n) is accepted exactly when 100 <= n <= 102400; an
\* accepted call sets numberOfLines to n, a rejected call throws and leaves the
\* whole configuration unchanged.
C5_SetNumberOfLines ==
    [][\A lines \in LinesArgs :
          setNumberOfLines(lines) =>
              IF 100 <= lines /\ lines <= 102400
              THEN numberOfLines' = lines /\ thrown' = ""
              ELSE /\ thrown' = IF lines < 100
                                THEN "Number of lines cannot be less than 100"
                                ELSE "Number of lines cannot exceed 102400"
                   /\ config' = config]_vars

\* 102400 was accepted and 102401 then rejected.
C5_Witness ==
    /\ numberOfLines = 102400
    /\ thrown = "Number of lines cannot exceed 102400"

\* What a frequency setter does to the configuration: `field` is the value of
\* its own field, `others` the values of the other fields.
FrequencySetterEffect(frequency, field, others) ==
    IF frequency < 0
    THEN thrown' = "Frequency cannot be negative" /\ config' = config
    ELSE thrown' = "" /\ field' = frequency /\ others' = others

\* C6: setMinFrequency, setMaxFrequency, setHighPassFrequency and
\* setLowPassFrequency throw 'Frequency cannot be negative' on a negative value
\* and leave every field unchanged; on a value >= 0 each changes its own field
\* and no other.
C6_FrequencySetters ==
    [][/\ \A frequency \in MinFrequencyArgs :
             setMinFrequency(frequency) =>
                FrequencySetterEffect(frequency, minFrequency,
                    <<numberOfLines, windowType, maxFrequency, highPassFrequency,
                      lowPassFrequency, bandRange>>)
       /\ \A frequency \in MaxFrequencyArgs :
             setMaxFrequency(frequency) =>
                FrequencySetterEffect(frequency, maxFrequency,
                    <<numberOfLines, windowType, minFrequency, highPassFrequency,
                      lowPassFrequency, bandRange>>)
       /\ \A frequency \in HighPassArgs :
             setHighPassFrequency(frequency) =>
                FrequencySetterEffect(frequency, highPassFrequency,
                    <<numberOfLines, windowType, minFrequency, maxFrequency,
                      lowPassFrequency, bandRange>>)
       /\ \A frequency \in LowPassArgs :
             setLowPassFrequency(frequency) =>
                FrequencySetterEffect(frequency, lowPassFrequency,
                    <<numberOfLines, windowType, minFrequency, maxFrequency,
                      highPassFrequency, bandRange>>)]_vars

\* A negative frequency rejected after each of the four fields was set.
C6_Witness ==
    /\ thrown = "Frequency cannot be negative"
    /\ minFrequency = 25
    /\ maxFrequency = 25
    /\ highPassFrequency = 10
    /\ lowPassFrequency = 20

\* C7: setBandRange(r) throws and leaves the configuration unchanged when
\* r <= 0 or r exceeds the maxFrequency current at the call; otherwise it sets
\* bandRange to r and changes nothing else.
C7_SetBandRange ==
    [][\A range \in BandRangeArgs :
          setBandRange(range) =>
              IF range <= 0 \/ range > maxFrequency
              THEN thrown' # "" /\ config' = config
              ELSE /\ thrown' = ""
                   /\ bandRange' = range
                   /\ <<numberOfLines, windowType, minFrequency, maxFrequency,
                        highPassFrequency, lowPassFrequency>>' =
                      <<numberOfLines, windowType, minFrequency, maxFrequency,
                        highPassFrequency, lowPassFrequency>>]_vars

\* 50 was accepted under the default maxFrequency and a range above the
\* current maxFrequency then rejected.
C7_Witness ==
    /\ bandRange = 50
    /\ thrown = "Band range cannot be larger than max frequency"

\* C8: in every state reachable by setter calls, accepted or rejected,
\* numberOfLines is in [100, 102400], the four frequencies are >= 0 and
\* bandRange > 0.
C8_ConfigurationInRange ==
    /\ numberOfLines \in 100..102400
    /\ minFrequency >= 0
    /\ maxFrequency >= 0
    /\ highPassFrequency >= 0
    /\ lowPassFrequency >= 0
    /\ bandRange > 0

\* A rejected call after accepted calls moved every field off its default.
C8_Witness ==
    /\ thrown # ""
    /\ numberOfLines = 100
    /\ windowType = "Rectangular"
    /\ minFrequency = 25
    /\ maxFrequency = 0
    /\ highPassFrequency = 20
    /\ lowPassFrequency = 20
    /\ bandRange = 50

(***************************************************************************)
(* Claims about integrateSpectrum, under SpecIntegrate                     *)
(***************************************************************************)
\* C9: with highPass > 0 integrateSpectrum moves the quantity Acceleration ->
\* Velocity -> Displacement one step per call, and a Displacement result is
\* rejected with 'Cannot integrate displacement ...' and gets no further
\* quantity.
C9_QuantitySteps ==
    [][(integrateSpectrum /\ highPassFrequency > 0) =>
          /\ result.quantity = "Acceleration" =>
                result'.isValid /\ result'.quantity = "Velocity"
          /\ result.quantity = "Velocity" =>
                result'.isValid /\ result'.quantity = "Displacement"
          /\ result.quantity = "Displacement" =>
                /\ ~result'.isValid
                /\ result'.quantity = "Displacement"
                /\ result'.errorMessage =
                      "Cannot integrate displacement to prevent double integration"]_vars

\* A result integrated twice, from Acceleration to Displacement, and rejected
\* at the third attempt.
C9_Witness ==
    /\ integrations = 2
    /\ result.quantity = "Displacement"
    /\ ~result.isValid
    /\ result.errorMessage =
          "Cannot integrate displacement to prevent double integration"

\* C10: the outcome of integrateSpectrum follows highPassFrequency at the
\* moment of the call, whatever it was when the result was calculated: with
\* highPassFrequency = 0 the result is rejected, with highPassFrequency > 0 a
\* result that is not a Displacement is integrated.
C10_LiveRecheck ==
    [][integrateSpectrum =>
          IF highPassFrequency > 0
          THEN result.quantity # "Displacement" => result'.isValid
          ELSE /\ ~result'.isValid
               /\ result'.errorMessage =
                     "Integration is not allowed when high pass filter is not used"]_vars

\* A result calculated with highPass > 0 and rejected after
\* setHighPassFrequency(0).
C10_Witness ==
    /\ highPassAtCalc > 0
    /\ highPassFrequency = 0
    /\ ~result.isValid
    /\ result.errorMessage =
          "Integration is not allowed when high pass filter is not used"

NotAllowed == "Integration is not allowed when high pass filter is not used"

\* C11 as stated: integrateSpectrum of a result that was calculated while
\* highPassFrequency was 0 is rejected with the integration-not-allowed
\* reason.
C11_ComputedWithoutHighPass ==
    [][(integrateSpectrum /\ highPassAtCalc = 0) =>
          ~result'.isValid /\ result'.errorMessage = NotAllowed]_vars

\* C11 as amended: integrateSpectrum called while highPassFrequency is 0 is
\* rejected with the integration-not-allowed reason, whether its input is valid
\* or not and whatever highPassFrequency was when the input was calculated.
C11_NotAllowedWithoutHighPass ==
    [][(integrateSpectrum /\ highPassFrequency = 0) =>
          ~result'.isValid /\ result'.errorMessage = NotAllowed]_vars

\* A valid result calculated and integrated with highPassFrequency = 0.
C11_Witness ==
    /\ highPassAtCalc = 0
    /\ highPassFrequency = 0
    /\ input.isValid
    /\ ~result.isValid
    /\ result.errorMessage = NotAllowed

\* C12: eligibility is checked before the terminal quantity: with
\* highPassFrequency = 0 the reason is the integration-not-allowed one even for
\* a Displacement input; both rejections return isValid = false and the
\* input's maxFrequency, resolution, quantity and band peaks.
C12_CheckOrder ==
    [][integrateSpectrum =>
          /\ highPassFrequency = 0 => result'.errorMessage = NotAllowed
          /\ (highPassFrequency > 0 /\ result.quantity = "Displacement") =>
                result'.errorMessage =
                   "Cannot integrate displacement to prevent double integration"
          /\ (highPassFrequency = 0 \/ result.quantity = "Displacement") =>
                /\ ~result'.isValid
                /\ result'.maxFrequency = result.maxFrequency
                /\ result'.resolution = result.resolution
                /\ result'.quantity = result.quantity
                /\ result'.bandPeaks = result.bandPeaks]_vars

\* A valid Displacement result with bands, rejected for the missing high pass.
C12_Witness ==
    /\ highPassFrequency = 0
    /\ input.quantity = "Displacement"
    /\ input.isValid
    /\ input.bandPeaks # <<>>
    /\ ~result.isValid
    /\ result.errorMessage = NotAllowed
    /\ result.bandPeaks = input.bandPeaks

(***************************************************************************)
(* Claims about integrateSpectrum, under SpecIntegrateGiven                *)
(***************************************************************************)
CenterPositive(band) == band.start + band.end > 0

\* value / (2 * pi * center) to 10 decimals: `integrated` is the count of 1e-10
\* nearest to value / (pi * (start + end)), the upper one of two equally near.
IsIntegratedValue(integrated, band) ==
    LET num == band.value * PiDen
        den == PiNum * (band.start + band.end)
    IN  /\ 2 * (integrated * den - num) <= den
        /\ 2 * (num - integrated * den) < den

\* C13: a successful integrateSpectrum returns, in the order of the input, the
\* bands of the input whose center is > 0, each with its value divided by
\* 2 * pi * center and rounded to 10 decimals; the bands of center <= 0 are
\* absent; the result is valid.
C13_IntegratedBands ==
    [][(integrateSpectrum /\ highPassFrequency > 0
          /\ result.quantity # "Displacement") =>
          LET kept == SelectSeq(result.bandPeaks, CenterPositive)
          IN  /\ result'.isValid
              /\ Len(result'.bandPeaks) = Len(kept)
              /\ \A k \in 1..Len(kept) :
                    /\ result'.bandPeaks[k].start = kept[k].start
                    /\ result'.bandPeaks[k].end = kept[k].end
                    /\ IsIntegratedValue(result'.bandPeaks[k].value, kept[k])]_vars

\* A band of center 0 dropped and the band after it integrated to a value
\* that is not 0.
C13_Witness ==
    /\ result.isValid
    /\ Len(input.bandPeaks) = 2
    /\ input.bandPeaks[1].start + input.bandPeaks[1].end = 0
    /\ Len(result.bandPeaks) = 1
    /\ result.bandPeaks[1].start = input.bandPeaks[2].start
    /\ result.bandPeaks[1].value > 0
    /\ result.bandPeaks[1].value < input.bandPeaks[2].value

\* C14: integrateSpectrum leaves the object it is given as it was, whether it
\* accepts or rejects, and an accepting call returns a band-peak Map that is
\* not the Map of the input.
C14_InputUnchanged ==
    [][integrateSpectrum =>
          /\ input' = result
          /\ result'.isValid => ~bandPeaksShared']_vars

\* An Acceleration result integrated to Velocity: the input still holds its
\* own quantity and band values.
C14_Witness ==
    /\ input.quantity = "Acceleration"
    /\ result.quantity = "Velocity"
    /\ result.isValid
    /\ ~bandPeaksShared
    /\ input.bandPeaks # <<>>
    /\ result.bandPeaks # input.bandPeaks

(***************************************************************************)
(* Claims about the padding and the time budget of calculateSpectrum,      *)
(* under Spec                                                              *)
(***************************************************************************)
\* The waveform and the configuration pass the five gates.
GatesPass == JointlyValid /\ ~RateTooLow /\ ~RateTooHigh /\ ~TooLong

\* p is the least power of two that is >= n, for n >= 1.
IsLeastPowerOfTwo(p, n) ==
    /\ p \in {2 ^ e : e \in 0..n}
    /\ p >= n
    /\ p < 2 * n

\* C19: for a waveform of at least one sample that passes the gates, the
\* samples are padded to the least power of two that is >= their number, and
\* the call reports the resolution sampleRate / paddedLength.
C19_PaddedLength ==
    (Calculated /\ GatesPass /\ waveform.data.length >= 1) =>
        /\ thrown = ""
        /\ result.resolution.num = waveform.sampleRate
        /\ IsLeastPowerOfTwo(result.resolution.den, waveform.data.length)

\* C20: a call that passed every gate returns the timeout result, with no
\* bands, when the time read at the final check is above 100 ms, and the valid
\* result when it is at most 100 ms; a call that a gate rejected does not
\* report the timeout reason.
C20_TimeBudget ==
    Calculated =>
        /\ GatesPass =>
              /\ thrown = ""
              /\ IF calcTime > 100
                 THEN /\ ~result.isValid
                      /\ TimedOut(result)
                      /\ result.bandPeaks = <<>>
                 ELSE result.isValid
        /\ ~GatesPass => ~TimedOut(result)

(***************************************************************************)
(* Claims about the results of calculateSpectrum, under Spec               *)
(***************************************************************************)
\* Every sample of the waveform is zero.
AllZero == waveform.data.nonzero = {}

\* C21: for a jointly valid configuration and an all-zero waveform that
\* passes the gates, a call within the time budget returns a valid result
\* whose band peaks are all 0.
C21_ZeroWaveform ==
    (Calculated /\ GatesPass /\ AllZero /\ calcTime <= MAX_SPECTRUM_CALC_TIME) =>
        /\ thrown = ""
        /\ result.isValid
        /\ \A k \in DOMAIN result.bandPeaks : result.bandPeaks[k].value = 0

(***************************************************************************)
(* calculatePeakInBand                                                     *)
(***************************************************************************)
\* The entries of bandPeaks, in the Map's order, whose key holds startFreq
\* and endFreq.
MatchingBands(spectrum, startFreq, endFreq) ==
    { k \in DOMAIN spectrum.bandPeaks :
        /\ spectrum.bandPeaks[k].start = startFreq
        /\ spectrum.bandPeaks[k].end = endFreq }

\* calculatePeakInBand falling back on the raw spectrum when no key matches.
calculatePeakInBand_Recomputes(spectrum, startFreq, endFreq) ==
    IF ~spectrum.isValid
    THEN -1
    ELSE LET matching == MatchingBands(spectrum, startFreq, endFreq)
         IN  IF matching # {}
             THEN spectrum.bandPeaks[CHOOSE k \in matching :
                                        \A j \in matching : k <= j].value
             ELSE calculateRealPeakInBand(spectrum.rawSpectrum, startFreq,
                                          endFreq, spectrum.resolution)

\* The loop returns the value of the first entry whose key matches; -1 is
\* returned for an invalid spectrum and after a loop that found none.
calculatePeakInBand(spectrum, startFreq, endFreq) ==
    IF ~spectrum.isValid
    THEN -1
    ELSE LET matching == MatchingBands(spectrum, startFreq, endFreq)
         IN  IF matching # {}
             THEN spectrum.bandPeaks[CHOOSE k \in matching :
                                        \A j \in matching : k <= j].value
             ELSE -1

\* SpectrumResult objects that calculatePeakInBand, a public method, may be
\* given: those of GivenResults, each with a raw spectrum of two bins of 16 Hz
\* that hold a line.
PeakInBandResults ==
    { [r EXCEPT !.rawSpectrum = <<LineMagnitude, LineMagnitude>>] :
        r \in GivenResults }

\* Bands asked for: keys a result may hold, and (0, 16), which none holds.
PeakInBandCalls ==
    { [spectrum |-> <<>>, startFreq |-> sf, endFreq |-> ef,
       resolution |-> ZeroResolution] : sf \in {0, 25}, ef \in {16, 25, 50} }

\* A new module and a caller that holds a SpectrumResult and asks for a band.
InitPeakInBand ==
    /\ numberOfLines = 1024
    /\ windowType = "Hanning"
    /\ minFrequency = 0
    /\ maxFrequency = 1000
    /\ highPassFrequency = 0
    /\ lowPassFrequency = 0
    /\ bandRange = 25
    /\ spectrumDatabase = <<>>
    /\ waveform = NoWaveform
    /\ result \in PeakInBandResults
    /\ thrown = ""
    /\ highPassAtCalc = 0
    /\ integrations = 0
    /\ calcTime = NoTime
    /\ input = NoResult
    /\ bandPeaksShared = FALSE
    /\ call \in PeakInBandCalls
    /\ returned = NotReturned
    /\ trend = NoTrend
    /\ stores = <<>>

\* The call calculatePeakInBand(result, startFreq, endFreq) is made and
\* returns.
ReturnPeakInBand ==
    /\ call # NoCall
    /\ returned = NotReturned
    /\ returned' = calculatePeakInBand(result, call.startFreq, call.endFreq)
    /\ UNCHANGED <<numberOfLines, windowType, minFrequency, maxFrequency,
                   highPassFrequency, lowPassFrequency, bandRange,
                   spectrumDatabase, waveform, result, thrown, highPassAtCalc,
                   integrations, calcTime, input, bandPeaksShared, call,
                   trend, stores>>

NextPeakInBand == ReturnPeakInBand

SpecPeakInBand == InitPeakInBand /\ [][NextPeakInBand]_vars

RECURSIVE SumOfPeaks(_)
SumOfPeaks(bandPeaks) ==
    IF bandPeaks = <<>>
    THEN 0
    ELSE bandPeaks[1].value + SumOfPeaks(Tail(bandPeaks))

\* The entries with value >= targetValue, where targetValue is
\* (sum / count) * 2 and count > 0.
ReachesTarget(bandPeaks) ==
    { k \in DOMAIN bandPeaks :
        bandPeaks[k].value * Len(bandPeaks) >= 2 * SumOfPeaks(bandPeaks) }

\* calculateMachineSpeed taking the largest band that reaches the target.
calculateMachineSpeed_LargestBand(spectralData) ==
    IF ~spectralData.isValid \/ spectralData.bandPeaks = <<>>
    THEN -1
    ELSE LET reaching == ReachesTarget(spectralData.bandPeaks)
         IN  IF reaching = {}
             THEN -1
             ELSE LET band == spectralData.bandPeaks[
                                  CHOOSE k \in reaching :
                                      \A j \in reaching :
                                          /\ spectralData.bandPeaks[j].value
                                                 <= spectralData.bandPeaks[k].value
                                          /\ spectralData.bandPeaks[j].value
                                                 = spectralData.bandPeaks[k].value
                                             => k <= j]
                  IN  IF band.start + band.end = -2
                      THEN -1
                      ELSE 30 * (band.start + band.end)

\* calculateMachineSpeed(date, spectralData); date is not read.  The loop
\* stops at the first entry, in the Map's order, that reaches the target;
\* peakFrequency * 60 is 30 * (band[0] + band[1]), and a peakFrequency of -1
\* is taken for "none found".
calculateMachineSpeed(spectralData) ==
    IF ~spectralData.isValid \/ spectralData.bandPeaks = <<>>
    THEN -1
    ELSE LET reaching == ReachesTarget(spectralData.bandPeaks)
         IN  IF reaching = {}
             THEN -1
             ELSE LET band == spectralData.bandPeaks[
                                  CHOOSE k \in reaching :
                                      \A j \in reaching : k <= j]
                  IN  IF band.start + band.end = -2
                      THEN -1
                      ELSE 30 * (band.start + band.end)

\* The most bands of a result passed to calculateMachineSpeed.
MaxSpeedBands == 6

\* SpectrumResult objects passed to calculateMachineSpeed: valid or not, with
\* the bands in the order calculateSpectrum sets them, (0, 25), (25, 50), ...
MachineSpeedResults ==
    UNION { { [maxFrequency |-> 1000, resolution |-> [num |-> 64, den |-> 4],
               quantity |-> "Acceleration",
               bandPeaks |-> [k \in 1..n |->
                                [start |-> 25 * (k - 1), end |-> 25 * k,
                                 value |-> values[k]]],
               isValid |-> v,
               errorMessage |-> IF v THEN "" ELSE "Invalid spectrum parameters",
               rawSpectrum |-> <<>>] :
                values \in [1..n -> PeakMagnitudes], v \in BOOLEAN } :
            n \in 0..MaxSpeedBands }

\* A new module and a caller that holds a SpectrumResult.
InitMachineSpeed ==
    /\ numberOfLines = 1024
    /\ windowType = "Hanning"
    /\ minFrequency = 0
    /\ maxFrequency = 1000
    /\ highPassFrequency = 0
    /\ lowPassFrequency = 0
    /\ bandRange = 25
    /\ spectrumDatabase = <<>>
    /\ waveform = NoWaveform
    /\ result \in MachineSpeedResults
    /\ thrown = ""
    /\ highPassAtCalc = 0
    /\ integrations = 0
    /\ calcTime = NoTime
    /\ input = NoResult
    /\ bandPeaksShared = FALSE
    /\ call = NoCall
    /\ returned = NotReturned
    /\ trend = NoTrend
    /\ stores = <<>>

\* The call calculateMachineSpeed(date, result) is made and returns.
ReturnMachineSpeed ==
    /\ returned = NotReturned
    /\ returned' = calculateMachineSpeed(result)
    /\ UNCHANGED <<numberOfLines, windowType, minFrequency, maxFrequency,
                   highPassFrequency, lowPassFrequency, bandRange,
                   spectrumDatabase, waveform, result, thrown, highPassAtCalc,
                   integrations, calcTime, input, bandPeaksShared, call,
                   trend, stores>>

NextMachineSpeed == ReturnMachineSpeed

SpecMachineSpeed == InitMachineSpeed /\ [][NextMachineSpeed]_vars

(***************************************************************************)
(* Claims about calculateMachineSpeed, under SpecMachineSpeed              *)
(***************************************************************************)
\* The bands of the result whose peak is at least twice the arithmetic mean
\* of all its band peaks.
AtLeastTwiceMean ==
    { k \in DOMAIN result.bandPeaks :
        result.bandPeaks[k].value * Len(result.bandPeaks)
            >= 2 * SumOfPeaks(result.bandPeaks) }

\* C23: on a valid result with bands, calculateMachineSpeed returns 60 times
\* the center of the band of least start among those whose peak is at least
\* twice the mean of all peaks, also when a later band has a larger peak; it
\* returns -1 for an invalid result, for a result without bands and when no
\* band is at least twice the mean.
C23_FirstBandAtTarget ==
    returned # NotReturned =>
        IF ~result.isValid \/ result.bandPeaks = <<>> \/ AtLeastTwiceMean = {}
        THEN returned = -1
        ELSE \E k \in AtLeastTwiceMean :
                /\ \A j \in AtLeastTwiceMean :
                      result.bandPeaks[k].start <= result.bandPeaks[j].start
                /\ 2 * returned
                       = 60 * (result.bandPeaks[k].start + result.bandPeaks[k].end)

\* Six bands of which the first two reach the target and the second is the
\* larger: the speed is that of the first, 60 * 12.5.
C23_Witness ==
    /\ result.isValid
    /\ Len(result.bandPeaks) = 6
    /\ result.bandPeaks[1].value = 100000
    /\ result.bandPeaks[2].value = 200000
    /\ AtLeastTwiceMean = {1, 2}
    /\ returned = 750

\* C29: calculateMachineSpeed returns a speed other than -1 only when some
\* band peak of the result is greater than 0.
C29_NoSpeedFromZeroPeaks ==
    (returned # NotReturned /\ returned # -1) =>
        \E k \in DOMAIN result.bandPeaks : result.bandPeaks[k].value > 0

(***************************************************************************)
(* The history store: storeSpectrumResult, retrieveSpectrumResult and      *)
(* getPeakInBandTrend.  spectrumDatabase, a Map, is the sequence of its    *)
(* entries [timestamp, result] in insertion order.                         *)
(***************************************************************************)
\* Map.prototype.has
MapHas(map, timestamp) ==
    \E k \in DOMAIN map : map[k].timestamp = timestamp

\* Map.prototype.get; NoResult stands for undefined.
MapGet(map, timestamp) ==
    IF MapHas(map, timestamp)
    THEN map[CHOOSE k \in DOMAIN map : map[k].timestamp = timestamp].result
    ELSE NoResult

\* A set that keeps the value of an existing key.
MapSet_KeepsFirst(map, timestamp, spectrumResult) ==
    IF MapHas(map, timestamp)
    THEN map
    ELSE Append(map, [timestamp |-> timestamp, result |-> spectrumResult])

\* Map.prototype.set: the value of an existing key is replaced where the
\* entry is, a new key is added at the end.
MapSet(map, timestamp, spectrumResult) ==
    IF MapHas(map, timestamp)
    THEN [k \in DOMAIN map |->
            IF map[k].timestamp = timestamp
            THEN [timestamp |-> timestamp, result |-> spectrumResult]
            ELSE map[k]]
    ELSE Append(map, [timestamp |-> timestamp, result |-> spectrumResult])

storeSpectrumResult(timestamp, spectrumResult) ==
    /\ spectrumDatabase' = MapSet(spectrumDatabase, timestamp, spectrumResult)
    /\ stores' = Append(stores, [timestamp |-> timestamp,
                                 result |-> spectrumResult])
    /\ thrown' = ""
    /\ UNCHANGED <<numberOfLines, windowType, minFrequency, maxFrequency,
                   highPassFrequency, lowPassFrequency, bandRange>>
    /\ UNCHANGED <<waveform, result, highPassAtCalc, integrations, calcTime,
                   input, bandPeaksShared, call, returned, trend>>

\* The caller keeps what the call returns; it has calculated and integrated
\* nothing of it.
retrieveSpectrumResult(timestamp) ==
    /\ result' = MapGet(spectrumDatabase, timestamp)
    /\ thrown' = ""
    /\ waveform' = NoWaveform
    /\ highPassAtCalc' = 0
    /\ integrations' = 0
    /\ calcTime' = NoTime
    /\ input' = NoResult
    /\ bandPeaksShared' = FALSE
    /\ UNCHANGED <<numberOfLines, windowType, minFrequency, maxFrequency,
                   highPassFrequency, lowPassFrequency, bandRange,
                   spectrumDatabase>>
    /\ UNCHANGED <<call, returned, trend, stores>>

\* a <= b for two strings, as JavaScript compares them: by the first
\* character that differs, a prefix being less than its extensions.
RECURSIVE StringLessEq(_, _)
StringLessEq(a, b) ==
    IF a = <<>> THEN TRUE
    ELSE IF b = <<>> THEN FALSE
    ELSE IF a[1] # b[1] THEN a[1] < b[1]
    ELSE StringLessEq(Tail(a), Tail(b))

\* The number a string of digits denotes.
RECURSIVE NumberOf(_)
NumberOf(digits) ==
    IF digits = <<>>
    THEN 0
    ELSE 10 * NumberOf(SubSeq(digits, 1, Len(digits) - 1)) + digits[Len(digits)]

\* maxPeak after the loop over bandPeaks.values(), which starts from 0.
RECURSIVE MaxPeak(_)
MaxPeak(bandPeaks) ==
    IF bandPeaks = <<>>
    THEN 0
    ELSE LET rest == MaxPeak(Tail(bandPeaks))
         IN  IF bandPeaks[1].value > rest THEN bandPeaks[1].value ELSE rest

\* The condition with the timestamps compared as numbers.
InTrend_ByNumber(entry, startDate, endDate) ==
    /\ entry.result.isValid
    /\ NumberOf(entry.timestamp) >= NumberOf(startDate)
    /\ NumberOf(entry.timestamp) <= NumberOf(endDate)

\* The condition under which the loop sets an entry of the trend.
InTrend(entry, startDate, endDate) ==
    /\ entry.result.isValid
    /\ StringLessEq(startDate, entry.timestamp)
    /\ StringLessEq(entry.timestamp, endDate)

\* The TrendData returned, a Map, as the sequence of its entries
\* [timestamp, maxPeak] in insertion order.
getPeakInBandTrend(startDate, endDate) ==
    LET chosen == SelectSeq(spectrumDatabase,
                            LAMBDA entry : InTrend(entry, startDate, endDate))
    IN  [k \in DOMAIN chosen |->
            [timestamp |-> chosen[k].timestamp,
             maxPeak |-> MaxPeak(chosen[k].result.bandPeaks)]]

\* The call getPeakInBandTrend(startDate, endDate) is made and returns.
ReturnPeakInBandTrend(startDate, endDate) ==
    /\ trend' = [startDate |-> startDate, endDate |-> endDate,
                 entries |-> getPeakInBandTrend(startDate, endDate)]
    /\ thrown' = ""
    /\ UNCHANGED <<numberOfLines, windowType, minFrequency, maxFrequency,
                   highPassFrequency, lowPassFrequency, bandRange,
                   spectrumDatabase>>
    /\ UNCHANGED <<waveform, result, highPassAtCalc, integrations, calcTime,
                   input, bandPeaksShared, call, returned, stores>>

\* The most calls of storeSpectrumResult in a behaviour.
MaxStores == 3

\* Timestamps under which results are stored, "10" and "9", and the dates
\* that bound a trend, "1", "10" and "9": "10" is before "9" as a string.
Timestamps == {<<1, 0>>, <<9>>}

Dates == {<<1>>, <<1, 0>>, <<9>>}

\* Results that are stored: a valid one with two bands, a valid one without
\* bands, and an invalid one that holds a band, as integrateSpectrum returns
\* when it rejects a result.
StoreResults ==
    { [maxFrequency |-> 1000, resolution |-> [num |-> 64, den |-> 4],
       quantity |-> "Acceleration",
       bandPeaks |-> <<[start |-> 0, end |-> 25, value |-> 200000],
                       [start |-> 25, end |-> 50, value |-> 100000]>>,
       isValid |-> TRUE, errorMessage |-> "", rawSpectrum |-> <<>>],
      [maxFrequency |-> 1000, resolution |-> [num |-> 64, den |-> 4],
       quantity |-> "Acceleration", bandPeaks |-> <<>>,
       isValid |-> TRUE, errorMessage |-> "", rawSpectrum |-> <<>>],
      [maxFrequency |-> 1000, resolution |-> [num |-> 64, den |-> 4],
       quantity |-> "Acceleration",
       bandPeaks |-> <<[start |-> 0, end |-> 25, value |-> LineMagnitude]>>,
       isValid |-> FALSE,
       errorMessage |->
           "Integration is not allowed when high pass filter is not used",
       rawSpectrum |-> <<>>] }

NextStore ==
    \/ \E timestamp \in Timestamps, spectrumResult \in StoreResults :
          /\ Len(stores) < MaxStores
          /\ storeSpectrumResult(timestamp, spectrumResult)
    \/ \E timestamp \in Timestamps : retrieveSpectrumResult(timestamp)
    \/ \E startDate \in Dates, endDate \in Dates :
          ReturnPeakInBandTrend(startDate, endDate)

SpecStore == Init /\ [][NextStore]_vars

(***************************************************************************)
(* Claims about the history store, under SpecStore                         *)
(***************************************************************************)
\* The result of the latest storeSpectrumResult call made under the
\* timestamp; NoResult, which stands for undefined, when there was none.
LastStored(timestamp) ==
    LET under == { k \in DOMAIN stores : stores[k].timestamp = timestamp }
    IN  IF under = {}
        THEN NoResult
        ELSE stores[CHOOSE k \in under : \A j \in under : j <= k].result

\* C24: the store is empty at construction and only storeSpectrumResult
\* changes it; at any moment the store holds, and retrieveSpectrumResult(t)
\* returns, the result most recently stored under t, valid or not, and
\* undefined exactly when nothing was ever stored under t; no entry is ever
\* removed.
C24_StoreHistory ==
    /\ spectrumDatabase = <<>>
    /\ [](\A t \in Timestamps : MapGet(spectrumDatabase, t) = LastStored(t))
    /\ [][/\ \A t \in Timestamps :
                retrieveSpectrumResult(t) =>
                    /\ result' = LastStored(t)
                    /\ (result' = NoResult) <=>
                           (\A k \in DOMAIN stores : stores[k].timestamp # t)
          /\ spectrumDatabase' # spectrumDatabase =>
                \E t \in Timestamps, r \in StoreResults : storeSpectrumResult(t, r)
          /\ \A t \in Timestamps :
                MapHas(spectrumDatabase, t) => MapHas(spectrumDatabase', t)]_vars

\* An invalid result stored under "9" over a valid one, another result
\* stored under "10" in between, and the invalid one retrieved.
C24_Witness ==
    /\ Len(stores) = 3
    /\ stores[1].timestamp = <<9>>
    /\ stores[1].result.isValid
    /\ stores[2].timestamp = <<1, 0>>
    /\ stores[3].timestamp = <<9>>
    /\ ~stores[3].result.isValid
    /\ result = stores[3].result
    /\ Len(spectrumDatabase) = 2

\* The largest band peak of a result, 0 for a result without bands.
IsMaximumPeak(peak, spectrumResult) ==
    IF spectrumResult.bandPeaks = <<>>
    THEN peak = 0
    ELSE /\ \E k \in DOMAIN spectrumResult.bandPeaks :
               spectrumResult.bandPeaks[k].value = peak
         /\ \A k \in DOMAIN spectrumResult.bandPeaks :
               spectrumResult.bandPeaks[k].value <= peak

\* C25: getPeakInBandTrend(startDate, endDate) returns, without throwing,
\* exactly one entry for each stored timestamp t whose stored result is valid
\* and with startDate <= t <= endDate as strings, holding the largest band
\* peak of that result (0 when it has no bands); it returns no entry for any
\* other timestamp, and none at all when startDate > endDate.
C25_TrendEntries ==
    [][\A startDate \in Dates, endDate \in Dates :
          ReturnPeakInBandTrend(startDate, endDate) =>
              /\ thrown' = ""
              /\ \A t \in Timestamps :
                    LET stored == MapGet(spectrumDatabase, t)
                        entries == { k \in DOMAIN trend'.entries :
                                       trend'.entries[k].timestamp = t }
                    IN  IF /\ MapHas(spectrumDatabase, t)
                           /\ stored.isValid
                           /\ StringLessEq(startDate, t)
                           /\ StringLessEq(t, endDate)
                        THEN /\ Cardinality(entries) = 1
                             /\ \A k \in entries :
                                   IsMaximumPeak(trend'.entries[k].maxPeak, stored)
                        ELSE entries = {}
              /\ \A k \in DOMAIN trend'.entries :
                    trend'.entries[k].timestamp \in Timestamps
              /\ ~StringLessEq(startDate, endDate) => trend'.entries = <<>>]_vars

\* A valid result under "10" and an invalid one under "9": the trend from
\* "1" to "9" holds the largest peak of the first and nothing of the second.
C25_Witness ==
    /\ MapHas(spectrumDatabase, <<9>>)
    /\ ~MapGet(spectrumDatabase, <<9>>).isValid
    /\ MapGet(spectrumDatabase, <<1, 0>>).isValid
    /\ Len(MapGet(spectrumDatabase, <<1, 0>>).bandPeaks) = 2
    /\ trend.startDate = <<1>>
    /\ trend.endDate = <<9>>
    /\ trend.entries = << [timestamp |-> <<1, 0>>, maxPeak |-> 200000] >>

(***************************************************************************)
(* Claims about the validity of results                                    *)
(***************************************************************************)
\* C26: integrateSpectrum returns a valid result only when the result it is
\* given is valid.
C26_ValidOnlyFromValid ==
    [][(integrateSpectrum /\ result'.isValid) => result.isValid]_vars

\* C27: every result calculateSpectrum returns is well-formed.  An invalid
\* one has an errorMessage and no band, and resolution 0 when a gate rejected
\* the call; a valid one has no errorMessage, a positive resolution and at
\* least one band.
C27_WellFormed ==
    (Calculated /\ thrown = "") =>
        IF result.isValid
        THEN /\ result.errorMessage = ""
             /\ result.resolution.num > 0
             /\ result.resolution.den > 0
             /\ result.bandPeaks # <<>>
        ELSE /\ result.errorMessage # ""
             /\ result.bandPeaks = <<>>
             /\ ~GatesPass => result.resolution = ZeroResolution

\* A call that ran out of time after a transform of three samples: invalid,
\* with the resolution of the transform and no band.
C27_Witness ==
    /\ Calculated
    /\ thrown = ""
    /\ waveform.data.length = 3
    /\ TimedOut(result)
    /\ ~result.isValid
    /\ result.resolution.den = 4
    /\ result.bandPeaks = <<>>

(***************************************************************************)
(* The handler of POST /api/process (src/src/index.test.ts, lines 180-306) *)
(* and its shared SpectrumCalculationModule                                *)
(***************************************************************************)
\* What setNumberOfLines throws for the argument, "" when it accepts it.
NumberOfLinesRejection(lines) ==
    IF lines < MIN_LINES
    THEN "Number of lines cannot be less than 100"
    ELSE IF lines > MAX_LINES
    THEN "Number of lines cannot exceed 102400"
    ELSE ""

\* What setMinFrequency, setMaxFrequency, setHighPassFrequency and
\* setLowPassFrequency throw for the argument, "" when they accept it.
FrequencyRejection(frequency) ==
    IF frequency < 0 THEN "Frequency cannot be negative" ELSE ""

\* What each of the six setter calls of the handler throws for the body, in
\* the order of lines 193-198; setWindowType throws nothing.
SetterRejections(body) ==
    << NumberOfLinesRejection(body.numberOfLines),
       "",
       FrequencyRejection(body.minFrequency),
       FrequencyRejection(body.maxFrequency),
       FrequencyRejection(body.highPassFrequency),
       FrequencyRejection(body.lowPassFrequency) >>

\* The position of the first setter call that throws, 7 when none does: the
\* calls before it have assigned their fields, the calls after it are not
\* made.
FirstRejection(body) ==
    LET rejecting == { k \in 1..6 : SetterRejections(body)[k] # "" }
    IN  IF rejecting = {}
        THEN 7
        ELSE CHOOSE k \in rejecting : \A j \in rejecting : k <= j

\* One request, from the destructuring of req.body to the response.  The
\* response has status 400 and the message of the Error when a setter or
\* calculateSpectrum throws (thrown' # ""), and status 200 otherwise; of a
\* response of status 200 the model keeps the spectrum and, where the body
\* asks for it and the spectrum is valid, the integrated spectrum: input is
\* then the spectrum and result the integrated one.
ProcessRequest(body) ==
    LET stop == FirstRejection(body)
        given == body.waveformData
    IN  /\ numberOfLines' = IF stop > 1 THEN body.numberOfLines ELSE numberOfLines
        /\ windowType' = IF stop > 2 THEN body.windowType ELSE windowType
        /\ minFrequency' = IF stop > 3 THEN body.minFrequency ELSE minFrequency
        /\ maxFrequency' = IF stop > 4 THEN body.maxFrequency ELSE maxFrequency
        /\ highPassFrequency' =
               IF stop > 5 THEN body.highPassFrequency ELSE highPassFrequency
        /\ lowPassFrequency' =
               IF stop > 6 THEN body.lowPassFrequency ELSE lowPassFrequency
        /\ UNCHANGED <<bandRange, spectrumDatabase, call, returned, trend,
                       stores>>
        /\ highPassAtCalc' = highPassFrequency'
        /\ bandPeaksShared' = FALSE
        /\ IF stop <= 6
           THEN /\ thrown' = SetterRejections(body)[stop]
                /\ waveform' = NoWaveform
                /\ result' = NoResult
                /\ input' = NoResult
                /\ integrations' = 0
                /\ calcTime' = NoTime
           ELSE /\ waveform' = given
                /\ IF GateMessage(given)' # ""
                   THEN /\ thrown' = ""
                        /\ result' = InvalidResult(given, ZeroResolution,
                                                   GateMessage(given))'
                        /\ input' = NoResult
                        /\ integrations' = 0
                        /\ calcTime' = NoTime
                   ELSE IF ~FFTSizeAccepted(PaddedLength(given))
                   THEN /\ thrown' = "FFT size must be a power of two larger than 1"
                        /\ result' = NoResult
                        /\ input' = NoResult
                        /\ integrations' = 0
                        /\ calcTime' = NoTime
                   ELSE \E spectrum \in MagnitudeSpectra(applyWindow(given.data),
                                                         PaddedLength(given))',
                           elapsed \in ElapsedTimes :
                            \E calculated \in
                                    {ComputedResult(given, spectrum, elapsed)'} :
                                /\ thrown' = ""
                                /\ calcTime' = elapsed
                                /\ IF body.integrate /\ calculated.isValid
                                   THEN /\ input' = calculated
                                        /\ result' =
                                               integrateSpectrumReturn(calculated)'
                                        /\ integrations' =
                                               IF result'.isValid THEN 1 ELSE 0
                                   ELSE /\ input' = NoResult
                                        /\ result' = calculated
                                        /\ integrations' = 0

\* Waveforms in request bodies: three samples with a line, and one sample.
RequestWaveforms ==
    { [data |-> [length |-> 3, nonzero |-> {1}], sampleRate |-> 2560,
       quantity |-> "Acceleration"],
      [data |-> [length |-> 1, nonzero |-> {}], sampleRate |-> 2560,
       quantity |-> "Acceleration"] }

\* Request bodies: each numeric field with a value its setter rejects and one
\* or two it accepts, other than the value the module is constructed with.
RequestBodies ==
    { [numberOfLines |-> lines, windowType |-> type,
       minFrequency |-> minF, maxFrequency |-> maxF,
       highPassFrequency |-> highPass, lowPassFrequency |-> lowPass,
       integrate |-> integrate, waveformData |-> given] :
        lines \in {MIN_LINES - 1, 2048}, type \in WindowType,
        minF \in {-1, 10}, maxF \in {-1, 50, 100}, highPass \in {-1, 0, 10},
        lowPass \in {-1, 200}, integrate \in BOOLEAN,
        given \in RequestWaveforms }

NextProcess == \E body \in RequestBodies : ProcessRequest(body)

SpecProcess == Init /\ [][NextProcess]_vars

(***************************************************************************)
(* Claims about the /api/process handler, under SpecProcess                *)
(***************************************************************************)
\* The messages of the Errors that the setters of the handler throw.
SetterMessages ==
    { "Number of lines cannot be less than 100",
      "Number of lines cannot exceed 102400",
      "Frequency cannot be negative" }

\* C28: a request that is answered with status 400 and the message of a
\* setter leaves the configuration of the shared module as it was before the
\* request.
C28_RejectedRequestKeepsConfiguration ==
    [][((\E body \in RequestBodies : ProcessRequest(body))
            /\ thrown' \in SetterMessages)
          => config' = config]_vars

(***************************************************************************)
(* Every public method of the module, used by one caller                   *)
(***************************************************************************)
\* The call calculatePeakInBand(result, startFreq, endFreq).
PeakInBandOfResult(startFreq, endFreq) ==
    /\ call' = [spectrum |-> <<>>, startFreq |-> startFreq,
                endFreq |-> endFreq, resolution |-> ZeroResolution]
    /\ returned' = calculatePeakInBand(result, startFreq, endFreq)
    /\ thrown' = ""
    /\ UNCHANGED <<numberOfLines, windowType, minFrequency, maxFrequency,
                   highPassFrequency, lowPassFrequency, bandRange,
                   spectrumDatabase>>
    /\ UNCHANGED <<waveform, result, highPassAtCalc, integrations, calcTime,
                   input, bandPeaksShared, trend, stores>>

\* The call calculateMachineSpeed(date, result).
MachineSpeedOfResult ==
    /\ call' = NoCall
    /\ returned' = calculateMachineSpeed(result)
    /\ thrown' = ""
    /\ UNCHANGED <<numberOfLines, windowType, minFrequency, maxFrequency,
                   highPassFrequency, lowPassFrequency, bandRange,
                   spectrumDatabase>>
    /\ UNCHANGED <<waveform, result, highPassAtCalc, integrations, calcTime,
                   input, bandPeaksShared, trend, stores>>

\* Waveforms of two samples, the second of which is not 0.
AllWaveforms ==
    { [data |-> [length |-> 2, nonzero |-> {1}], sampleRate |-> MAX_SAMPLE_RATE,
       quantity |-> "Acceleration"] }

AllHighPassArgs == {0, 10}

\* A caller that sets the high-pass frequency, calculates spectra and
\* integrates each once, stores one result under "9", retrieves it, and asks
\* once for a number and once for the trend.
NextAll ==
    \/ (\E frequency \in AllHighPassArgs : setHighPassFrequency(frequency))
          /\ Keep
    \/ \E given \in AllWaveforms :
          /\ waveform = NoWaveform
          /\ calculateSpectrum(given)
          /\ waveform' = calculateSpectrumWaveformAfter(given)
    \/ input = NoResult /\ integrateSpectrum
    \/ returned = NotReturned /\ PeakInBandOfResult(0, 25)
    \/ returned = NotReturned /\ MachineSpeedOfResult
    \/ /\ result # NoResult
       /\ stores = <<>>
       /\ storeSpectrumResult(<<9>>, result)
    \/ retrieveSpectrumResult(<<9>>)
    \/ trend = NoTrend /\ ReturnPeakInBandTrend(<<1>>, <<9>>)

SpecAll == Init /\ [][NextAll]_vars

(***************************************************************************)
(* Claims about what the methods leave unchanged, under SpecAll            *)
(***************************************************************************)
\* C30: the configuration changes only in a step of a setter and the store
\* only in a step of storeSpectrumResult, so calculateSpectrum,
\* integrateSpectrum, calculatePeakInBand, calculateMachineSpeed,
\* getPeakInBandTrend and retrieveSpectrumResult leave both as they are; and
\* the samples of the waveform passed to calculateSpectrum are after the call
\* what they were before it.
C30_Frame ==
    [][/\ config' # config =>
              \E frequency \in AllHighPassArgs : setHighPassFrequency(frequency)
       /\ spectrumDatabase' # spectrumDatabase =>
              storeSpectrumResult(<<9>>, result)
       /\ ((\/ \E given \in AllWaveforms : calculateSpectrum(given)
            \/ integrateSpectrum
            \/ PeakInBandOfResult(0, 25)
            \/ MachineSpeedOfResult
            \/ ReturnPeakInBandTrend(<<1>>, <<9>>)
            \/ retrieveSpectrumResult(<<9>>))
              => /\ config' = config
                 /\ spectrumDatabase' = spectrumDatabase)
       /\ \A given \in AllWaveforms :
              (/\ calculateSpectrum(given)
               /\ waveform' = calculateSpectrumWaveformAfter(given))
                  => waveform'.data = given.data]_vars

\* After a result was stored and the high-pass frequency set: a waveform
\* whose second sample is still not 0 although the Hanning window made it 0
\* for the transform, its spectrum integrated, and the queries answered.
C30_Witness ==
    /\ windowType = "Hanning"
    /\ highPassFrequency = 10
    /\ waveform # NoWaveform
    /\ waveform.data.nonzero = {1}
    /\ result.isValid
    /\ result.quantity = "Velocity"
    /\ Len(spectrumDatabase) = 1
    /\ trend.entries # <<>>
    /\ call # NoCall
    /\ returned = 0

====
